---- MODULE Spec2Model ----
(***************************************************************************)
(* A model of src/spdy/util.go: the per-stream state machine of spdy-go    *)
(* (Stream, HalfStream, StreamInput, StreamOutput) and the ChanFramer that *)
(* carries the frames of each half.                                        *)
(*                                                                         *)
(* Two specifications share the module.                                    *)
(*   Spec      one Stream; every method call is one action (the calls of   *)
(*             one goroutine per half, run to completion).                 *)
(*   SpecChan  one ChanFramer used by several goroutines; every method is  *)
(*             split at the points where the Go scheduler may switch:      *)
(*             between the read of framer.err and the channel operation.   *)
(***************************************************************************)
EXTENDS Integers, Sequences, FiniteSets, TLC

\* ------------------------------------------------------------------ bounds

\* Slots of the buffered channel. The source hardcodes 4096 (util.go:407);
\* the model keeps the channel bounded and scales the number down so that
\* SpecChan reaches a full channel.
QueueCap == 2

\* The two halves of the stream admit no more than this many frames together
\* (HalfStream.nFrames is a uint32; the bound keeps it far from wrapping).
MaxFrames == 2

\* SpecHeaders: the frames the two halves admit together.
MaxHeaderFrames == 2

\* SpecMirror: the frames the sender's send half admits.
MaxMirrorFrames == 3

\* SpecRelay: the frames an endpoint has for its reader.
MaxSource == 2

\* SpecChan: the goroutines that use the ChanFramer, and the frames they try
\* to write in all.
NumProcs == 2
MaxWrites == 3

\* ------------------------------------------------------------- frame model

Nil == "nil"
EOF == "EOF"

\* The marker of a call that does not return: the goroutine is suspended in
\* `framer.ch <- frame` or `<-framer.ch`.
Blocked == "BLOCKED"

\* StatusCode PROTOCOL_ERROR of the package's types (not part of util.go).
ProtocolError == 1

\* STREAM_ALREADY_CLOSED, the literal of util.go:318.
StreamAlreadyClosed == 9

SessionTypes == {"Noop", "Settings", "Ping", "GoAway"}
StreamTypes  == {"SynStream", "SynReply", "Headers", "Data", "RstStream"}
HeaderTypes  == {"SynStream", "SynReply", "Headers"}

\* The keys a frame's header map may hold, and http.Header.Add's canonical
\* form of each (textproto.CanonicalMIMEHeaderKey).
HeaderKeys == {"a", "A"}
CanonicalKey(key) == IF key = "a" THEN "A" ELSE key

\* An http.Header is a function from keys to the sequence of their values; a
\* key that is not in the map holds the empty sequence.
NoHeaders == [k \in HeaderKeys |-> <<>>]

\* The header map of the header-carrying frames offered in Spec and SpecMirror
\* (SpecHeaders offers more).
HeaderChoices == { [NoHeaders EXCEPT !["a"] = <<"1">>] }

\* The orders in which `range *newHeaders` may visit the keys of the map: Go
\* leaves the iteration order of a map open.
KeysOf(headers) == { k \in HeaderKeys : headers[k] # <<>> }
KeyOrders(headers) ==
    { order \in UNION { [1..n -> KeysOf(headers)] : n \in 0..Cardinality(HeaderKeys) } :
        /\ Len(order) = Cardinality(KeysOf(headers))
        /\ \A i, j \in 1..Len(order) : i # j => order[i] # order[j] }

StreamIds == {1}

MkFrame(type, id, fin, headers, status) ==
    [type |-> type, StreamId |-> id, fin |-> fin, Headers |-> headers,
     Status |-> status]

NoFrame == MkFrame("nil", 0, FALSE, NoHeaders, 0)

\* The frames a peer or a caller may offer.
Frames ==
    { MkFrame(t, id, fin, h, 0) :
        t \in HeaderTypes, id \in StreamIds, fin \in BOOLEAN, h \in HeaderChoices }
    \cup { MkFrame("Data", id, fin, NoHeaders, 0) : id \in StreamIds, fin \in BOOLEAN }
    \cup { MkFrame("RstStream", id, fin, NoHeaders, ProtocolError) :
             id \in StreamIds, fin \in BOOLEAN }
    \cup { MkFrame(t, 0, FALSE, NoHeaders, 0) : t \in SessionTypes }

GetStreamId(frame) == IF frame.type \in SessionTypes THEN 0 ELSE frame.StreamId

\* GetHeaders returns nil for the variants without headers.
HasHeaders(frame) == frame.type \in HeaderTypes
GetHeaders(frame) == frame.Headers

GetFinFlag(frame) == frame.fin

\* ------------------------------------------------------------ UpdateHeaders

RECURSIVE AddValues_Set(_, _, _)
\* headers.Set(key, value) in place of headers.Add(key, value).
AddValues_Set(headers, key, values) ==
    IF values = <<>> THEN headers
    ELSE AddValues_Set([headers EXCEPT ![CanonicalKey(key)] = <<Head(values)>>],
                       key, Tail(values))

RECURSIVE AddValues(_, _, _)
\* headers.Add(key, value) for each value of `values`, in order.
AddValues(headers, key, values) ==
    IF values = <<>> THEN headers
    ELSE AddValues([headers EXCEPT ![CanonicalKey(key)] = Append(@, Head(values))],
                   key, Tail(values))

RECURSIVE UpdateHeaders(_, _, _)
\* `order` is the order in which the range visits the keys of newHeaders.
UpdateHeaders(headers, newHeaders, order) ==
    IF order = <<>> THEN headers
    ELSE UpdateHeaders(AddValues(headers, Head(order), newHeaders[Head(order)]),
                       newHeaders, Tail(order))

\* --------------------------------------------- ChanFramer, run to completion

\* ch: the frames buffered in the channel; closed: close(framer.ch) was done.
NewChanFramer == [ch |-> <<>>, err |-> Nil, closed |-> FALSE]

Closed(framer) == framer.err # Nil

\* The result of a call: the framer after it and the error it returns.
ChanFramerWriteFrame(framer, frame) ==
    IF framer.err # Nil THEN [framer |-> framer, err |-> framer.err]
    ELSE IF Len(framer.ch) >= QueueCap THEN [framer |-> framer, err |-> Blocked]
    ELSE [framer |-> [framer EXCEPT !.ch = Append(@, frame)], err |-> Nil]

ChanFramerReadFrame(framer) ==
    IF framer.ch # <<>>
    THEN [framer |-> [framer EXCEPT !.ch = Tail(@)], frame |-> Head(framer.ch),
          err |-> Nil]
    ELSE IF framer.closed THEN [framer |-> framer, frame |-> NoFrame, err |-> framer.err]
    ELSE [framer |-> framer, frame |-> NoFrame, err |-> Blocked]

ChanFramerError(framer, err) ==
    IF framer.err # Nil THEN framer
    ELSE [framer EXCEPT !.err = err, !.closed = TRUE]

ChanFramerClose(framer) == ChanFramerError(framer, EOF)

\* ---------------------------------------------------------------- the stream

NewHalfStream == [ChanFramer |-> NewChanFramer, Headers |-> NoHeaders, nFrames |-> 0]

NewStream(id, isLocal) ==
    [Id |-> id, local |-> isLocal, Input |-> NewHalfStream, Output |-> NewHalfStream]

HalfStreamClose(half) == [half EXCEPT !.ChanFramer = ChanFramerClose(@)]

\* Stream.Close that also discards what is waiting in the two channels.
StreamClose_DropsQueued(s) ==
    [s EXCEPT !.Input = HalfStreamClose([@ EXCEPT !.ChanFramer.ch = <<>>]),
              !.Output = HalfStreamClose([@ EXCEPT !.ChanFramer.ch = <<>>])]

StreamClose(s) ==
    [s EXCEPT !.Input = HalfStreamClose(@), !.Output = HalfStreamClose(@)]

\* HalfStream.WriteFrame that handles the fin flag as it handles RstStream: it
\* closes the whole stream.
HalfStreamWriteFrame_FinClosesStream(s, side, frame, order) ==
    LET w == ChanFramerWriteFrame(s[side].ChanFramer, frame) IN
    IF w.err # Nil THEN [s |-> s, err |-> w.err]
    ELSE
      LET h1 == [s[side] EXCEPT !.ChanFramer = w.framer, !.nFrames = @ + 1]
          h3 == IF HasHeaders(frame)
                THEN [h1 EXCEPT !.Headers = UpdateHeaders(@, GetHeaders(frame), order)]
                ELSE h1
          s3 == [s EXCEPT ![side] = h3]
          s4 == IF frame.type = "RstStream" \/ GetFinFlag(frame) THEN StreamClose(s3) ELSE s3
      IN [s |-> s4, err |-> Nil]

\* HalfStream.WriteFrame without the RstStream case: a reset closes a half
\* only through its fin flag.
HalfStreamWriteFrame_RstClosesNothing(s, side, frame, order) ==
    LET w == ChanFramerWriteFrame(s[side].ChanFramer, frame) IN
    IF w.err # Nil THEN [s |-> s, err |-> w.err]
    ELSE
      LET h1 == [s[side] EXCEPT !.ChanFramer = w.framer, !.nFrames = @ + 1]
          h2 == IF GetFinFlag(frame) THEN HalfStreamClose(h1) ELSE h1
          h3 == IF HasHeaders(frame)
                THEN [h2 EXCEPT !.Headers = UpdateHeaders(@, GetHeaders(frame), order)]
                ELSE h2
      IN [s |-> [s EXCEPT ![side] = h3], err |-> Nil]

\* HalfStream.WriteFrame that leaves the counter alone for a frame with the fin
\* flag.
HalfStreamWriteFrame_FinNotCounted(s, side, frame, order) ==
    LET w == ChanFramerWriteFrame(s[side].ChanFramer, frame) IN
    IF w.err # Nil THEN [s |-> s, err |-> w.err]
    ELSE
      LET h1 == [s[side] EXCEPT !.ChanFramer = w.framer,
                                !.nFrames = IF GetFinFlag(frame) THEN @ ELSE @ + 1]
          h2 == IF GetFinFlag(frame) THEN HalfStreamClose(h1) ELSE h1
          h3 == IF HasHeaders(frame)
                THEN [h2 EXCEPT !.Headers = UpdateHeaders(@, GetHeaders(frame), order)]
                ELSE h2
          s3 == [s EXCEPT ![side] = h3]
          s4 == IF frame.type = "RstStream" THEN StreamClose(s3) ELSE s3
      IN [s |-> s4, err |-> Nil]

\* HalfStream.WriteFrame on the half `side` ("Input" or "Output") of stream s.
HalfStreamWriteFrame(s, side, frame, order) ==
    LET w == ChanFramerWriteFrame(s[side].ChanFramer, frame) IN
    IF w.err # Nil THEN [s |-> s, err |-> w.err]
    ELSE
      LET h1 == [s[side] EXCEPT !.ChanFramer = w.framer, !.nFrames = @ + 1]
          h2 == IF GetFinFlag(frame) THEN HalfStreamClose(h1) ELSE h1
          h3 == IF HasHeaders(frame)
                THEN [h2 EXCEPT !.Headers = UpdateHeaders(@, GetHeaders(frame), order)]
                ELSE h2
          s3 == [s EXCEPT ![side] = h3]
          s4 == IF frame.type = "RstStream" THEN StreamClose(s3) ELSE s3
      IN [s |-> s4, err |-> Nil]

\* StreamOutput.WriteFrame without the test of the first frame's kind.
StreamOutputWriteFrame_AnyFirstFrame(s, frame, order) ==
    IF Closed(s.Output.ChanFramer) THEN [s |-> s, err |-> "Output closed"]
    ELSE IF frame.type = "SynStream" /\ (s.Output.nFrames > 0 \/ ~s.local)
    THEN [s |-> s, err |-> "Won't send invalid SYN_STREAM frame"]
    ELSE IF frame.type = "SynReply" /\ (s.Output.nFrames > 0 \/ s.local)
    THEN [s |-> s, err |-> "Won't send invalid SYN_REPLY frame"]
    ELSE IF frame.type \notin {"SynStream", "SynReply", "Headers", "Data"}
    THEN [s |-> s, err |-> "Won't send invalid frame type"]
    ELSE HalfStreamWriteFrame(s, "Output", frame, order)

\* StreamOutput.WriteFrame with a case that lets a RstStream frame through.
StreamOutputWriteFrame_SendsRst(s, frame, order) ==
    IF Closed(s.Output.ChanFramer) THEN [s |-> s, err |-> "Output closed"]
    ELSE IF frame.type = "SynStream" /\ (s.Output.nFrames > 0 \/ ~s.local)
    THEN [s |-> s, err |-> "Won't send invalid SYN_STREAM frame"]
    ELSE IF frame.type = "SynReply" /\ (s.Output.nFrames > 0 \/ s.local)
    THEN [s |-> s, err |-> "Won't send invalid SYN_REPLY frame"]
    ELSE IF frame.type \in {"Headers", "Data"} /\ s.Output.nFrames = 0
    THEN [s |-> s, err |-> "First frame sent must be SYN_STREAM or SYN_REPLY"]
    ELSE IF frame.type \notin {"SynStream", "SynReply", "Headers", "Data", "RstStream"}
    THEN [s |-> s, err |-> "Won't send invalid frame type"]
    ELSE HalfStreamWriteFrame(s, "Output", frame, order)

StreamOutputWriteFrame(s, frame, order) ==
    IF Closed(s.Output.ChanFramer) THEN [s |-> s, err |-> "Output closed"]
    ELSE IF frame.type = "SynStream" /\ (s.Output.nFrames > 0 \/ ~s.local)
    THEN [s |-> s, err |-> "Won't send invalid SYN_STREAM frame"]
    ELSE IF frame.type = "SynReply" /\ (s.Output.nFrames > 0 \/ s.local)
    THEN [s |-> s, err |-> "Won't send invalid SYN_REPLY frame"]
    ELSE IF frame.type \in {"Headers", "Data"} /\ s.Output.nFrames = 0
    THEN [s |-> s, err |-> "First frame sent must be SYN_STREAM or SYN_REPLY"]
    ELSE IF frame.type \notin {"SynStream", "SynReply", "Headers", "Data"}
    THEN [s |-> s, err |-> "Won't send invalid frame type"]
    ELSE HalfStreamWriteFrame(s, "Output", frame, order)

StreamRst(s, status, order) ==
    StreamOutputWriteFrame(s, MkFrame("RstStream", s.Id, FALSE, NoHeaders, status), order)

StreamProtocolError(s, order) == StreamRst(s, ProtocolError, order)

\* The callers of Rst and ProtocolError in StreamInput.WriteFrame drop the
\* error: the call returns nil once the inner call has returned.
DropError(r) == IF r.err = Blocked THEN r ELSE [s |-> r.s, err |-> Nil]

\* The legality switch with the send validator's tests of `local`: SynStream
\* from the local side only, SynReply from the other.
InputSwitch_SendersLocalTest(s, frame, order) ==
    IF frame.type = "SynStream" /\ (s.Input.nFrames > 0 \/ ~s.local)
    THEN DropError(StreamProtocolError(s, order))
    ELSE IF frame.type = "SynReply" /\ (s.Input.nFrames > 0 \/ s.local)
    THEN DropError(StreamProtocolError(s, order))
    ELSE IF frame.type \in {"Headers", "Data"} /\ s.Input.nFrames = 0
    THEN DropError(StreamProtocolError(s, order))
    ELSE IF frame.type \notin StreamTypes
    THEN DropError(StreamProtocolError(s, order))
    ELSE HalfStreamWriteFrame(s, "Input", frame, order)

\* The legality switch of StreamInput.WriteFrame, lines 322-354.
InputSwitch(s, frame, order) ==
    IF frame.type = "SynStream" /\ (s.Input.nFrames > 0 \/ s.local)
    THEN DropError(StreamProtocolError(s, order))
    ELSE IF frame.type = "SynReply" /\ (s.Input.nFrames > 0 \/ ~s.local)
    THEN DropError(StreamProtocolError(s, order))
    ELSE IF frame.type \in {"Headers", "Data"} /\ s.Input.nFrames = 0
    THEN DropError(StreamProtocolError(s, order))
    ELSE IF frame.type \notin StreamTypes
    THEN DropError(StreamProtocolError(s, order))
    ELSE HalfStreamWriteFrame(s, "Input", frame, order)

\* StreamInput.WriteFrame that lets a RstStream frame past the test of
\* Closed(): "RST_STREAM frames are always allowed".
StreamInputWriteFrame_RstPastClosed(s, frame, order) ==
    IF Closed(s.Input.ChanFramer) /\ frame.type # "RstStream"
    THEN DropError(StreamRst(s, StreamAlreadyClosed, order))
    ELSE InputSwitch(s, frame, order)

\* StreamInput.WriteFrame that tests an opening frame against `local` only,
\* not against the counter.
StreamInputWriteFrame_NoCounterTest(s, frame, order) ==
    IF Closed(s.Input.ChanFramer)
    THEN IF frame.type # "RstStream"
         THEN DropError(StreamRst(s, StreamAlreadyClosed, order))
         ELSE [s |-> s, err |-> Nil]
    ELSE IF frame.type = "SynStream" /\ s.local
    THEN DropError(StreamProtocolError(s, order))
    ELSE IF frame.type = "SynReply" /\ ~s.local
    THEN DropError(StreamProtocolError(s, order))
    ELSE IF frame.type \in {"Headers", "Data"} /\ s.Input.nFrames = 0
    THEN DropError(StreamProtocolError(s, order))
    ELSE IF frame.type \notin StreamTypes
    THEN DropError(StreamProtocolError(s, order))
    ELSE HalfStreamWriteFrame(s, "Input", frame, order)

\* StreamInput.WriteFrame that tests an opening frame against the counter
\* only, not against `local`.
StreamInputWriteFrame_NoLocalTest(s, frame, order) ==
    IF Closed(s.Input.ChanFramer)
    THEN IF frame.type # "RstStream"
         THEN DropError(StreamRst(s, StreamAlreadyClosed, order))
         ELSE [s |-> s, err |-> Nil]
    ELSE IF frame.type \in {"SynStream", "SynReply"} /\ s.Input.nFrames > 0
    THEN DropError(StreamProtocolError(s, order))
    ELSE IF frame.type \in {"Headers", "Data"} /\ s.Input.nFrames = 0
    THEN DropError(StreamProtocolError(s, order))
    ELSE IF frame.type \notin StreamTypes
    THEN DropError(StreamProtocolError(s, order))
    ELSE HalfStreamWriteFrame(s, "Input", frame, order)

StreamInputWriteFrame(s, frame, order) ==
    IF Closed(s.Input.ChanFramer)
    THEN IF frame.type # "RstStream"
         THEN DropError(StreamRst(s, StreamAlreadyClosed, order))
         ELSE [s |-> s, err |-> Nil]
    ELSE InputSwitch(s, frame, order)

StreamSyn(s, headers, fin, order) ==
    StreamOutputWriteFrame(s, MkFrame("SynStream", s.Id, fin, headers, 0), order)

StreamReply(s, headers, fin, order) ==
    StreamOutputWriteFrame(s, MkFrame("SynReply", s.Id, fin, headers, 0), order)

StreamWriteDataFrame(s, fin, order) ==
    StreamOutputWriteFrame(s, MkFrame("Data", s.Id, fin, NoHeaders, 0), order)

\* ------------------------------------------------------------------- state

VARIABLES
    stream,    \* Spec: the Stream: Id, local, Input, Output
    last,      \* Spec: the last call on the stream: its name, its frame, its result
    admitted,  \* Spec: the frames each half has put into its channel, in order
    framer,    \* SpecChan: the ChanFramer: ch, err, closed
    pc,        \* SpecChan: where each goroutine is within its call
    cur,       \* SpecChan: the call each goroutine is in, with its argument
    ret,       \* SpecChan: the call that returned last, with what it returned
    panicked,  \* SpecChan: the run-time panic that ended the program, or Nil
    sent,      \* SpecChan: the frames put into framer.ch, in order
    delivered, \* SpecChan: the frames taken out of framer.ch, in order
    recorded,  \* SpecChan: the values assigned to framer.err, in order
    late,      \* SpecChan: some frame was put into framer.ch while framer.err was set
    closedAt,  \* SpecChan: Len(delivered) when close(framer.ch) ran, or -1
    ends,      \* SpecRelay: the two endpoints a and b: what each still has to deliver
               \*            to a reader and what it has taken from a writer
    task,      \* SpecRelay: each Copy call: where it is, its frame, its result
    splice,    \* SpecRelay: the Splice call: where it is, what it received and returned
    hist,      \* SpecRelay: the order in which the copies ended and were received
    peer,      \* SpecMirror: the Stream at the other end of the connection
    peerAdmitted \* SpecMirror: the frames the peer's receive half has queued, in order

streamVars == <<stream, last, admitted>>

chanVars == <<framer, pc, cur, ret, panicked, sent, delivered, recorded, late, closedAt>>

relayVars == <<ends, task, splice, hist>>

peerVars == <<peer, peerAdmitted>>

vars == <<stream, last, admitted, framer, pc, cur, ret, panicked, sent, delivered, recorded,
          late, closedAt, ends, task, splice, hist, peer, peerAdmitted>>

\* What the actions on the stream, and those on the ChanFramer, leave alone.
besideStream == <<chanVars, relayVars, peerVars>>
besideChan == <<streamVars, relayVars, peerVars>>

Call(op, frame, err) == [op |-> op, frame |-> frame, err |-> err]

Procs == 1..NumProcs

InitChanVars ==
    /\ framer = NewChanFramer
    /\ pc = [p \in Procs |-> "idle"]
    /\ cur = [p \in Procs |-> Call("none", NoFrame, Nil)]
    /\ ret = Call("none", NoFrame, Nil)
    /\ panicked = Nil
    /\ sent = <<>>
    /\ delivered = <<>>
    /\ recorded = <<>>
    /\ late = FALSE
    /\ closedAt = -1

\* The endpoints of a relay, and the Copy calls: the two Splice starts (Ab is
\* Copy(a, b), Ba is Copy(b, a)) and one that is called directly.
Ends == {"a", "b"}
Tasks == {"Ab", "Ba", "Solo"}

\* An endpoint is a FrameReader and a FrameWriter with one terminal condition
\* `end`, as a ChanFramer has. As a reader it hands out the frames of src and
\* then returns `end`; as a writer it takes wlimit frames into sink and then
\* returns `end`.
MkEnd(src, end, wlimit) == [src |-> src, end |-> end, sink |-> <<>>, wlimit |-> wlimit]

\* A Copy call: w and r are its arguments (w may be "nil"), frame and err the
\* local variables of the loop, read and passed what it has got from
\* r.ReadFrame and handed to w.WriteFrame.
MkTask(w, r) ==
    [pc |-> "idle", w |-> w, r |-> r, frame |-> NoFrame, err |-> Nil,
     read |-> <<>>, passed |-> <<>>]

MkSplice(pcs, wait) ==
    [pc |-> pcs, wait |-> wait, errAb |-> Nil, errBa |-> Nil, ret |-> Nil]

InitRelayVars ==
    /\ ends = [e \in Ends |-> MkEnd(<<>>, EOF, 0)]
    /\ task = [t \in Tasks |-> MkTask("nil", "a")]
    /\ splice = MkSplice("none", FALSE)
    /\ hist = [ended |-> <<>>, received |-> <<>>, endedAtReturn |-> <<>>,
               src |-> [e \in Ends |-> <<>>]]

InitPeerVars ==
    /\ peer = NewStream(1, TRUE)
    /\ peerAdmitted = <<>>

Init ==
    /\ \E id \in StreamIds, isLocal \in BOOLEAN : stream = NewStream(id, isLocal)
    /\ last = Call("NewStream", NoFrame, Nil)
    /\ admitted = [Input |-> <<>>, Output |-> <<>>]
    /\ InitChanVars
    /\ InitRelayVars
    /\ InitPeerVars

\* The frames a call has added to the channel of each half.
Queued(before, after) == SubSeq(after, Len(before) + 1, Len(after))
Admit(s) ==
    [side \in {"Input", "Output"} |->
        admitted[side] \o Queued(stream[side].ChanFramer.ch, s[side].ChanFramer.ch)]

\* A call returns (it is not suspended on a full channel) and stays within
\* the model's bound on the counters.
Returns(r) ==
    /\ r.err # Blocked
    /\ r.s.Input.nFrames + r.s.Output.nFrames <= MaxFrames

\* The session offers an incoming frame: stream.Input.WriteFrame(frame).
InputWriteFrame ==
    \E frame \in Frames : \E order \in KeyOrders(frame.Headers) :
        LET r == StreamInputWriteFrame(stream, frame, order) IN
        /\ Returns(r)
        /\ stream' = r.s
        /\ admitted' = Admit(r.s)
        /\ last' = Call("Input.WriteFrame", frame, r.err)
        /\ UNCHANGED besideStream

\* stream.WriteFrame(frame)
WriteFrame ==
    \E frame \in Frames : \E order \in KeyOrders(frame.Headers) :
        LET r == StreamOutputWriteFrame(stream, frame, order) IN
        /\ Returns(r)
        /\ stream' = r.s
        /\ admitted' = Admit(r.s)
        /\ last' = Call("WriteFrame", frame, r.err)
        /\ UNCHANGED besideStream

Syn ==
    \E headers \in HeaderChoices, fin \in BOOLEAN : \E order \in KeyOrders(headers) :
        LET r == StreamSyn(stream, headers, fin, order) IN
        /\ Returns(r)
        /\ stream' = r.s
        /\ admitted' = Admit(r.s)
        /\ last' = Call("Syn", MkFrame("SynStream", stream.Id, fin, headers, 0), r.err)
        /\ UNCHANGED besideStream

Reply ==
    \E headers \in HeaderChoices, fin \in BOOLEAN : \E order \in KeyOrders(headers) :
        LET r == StreamReply(stream, headers, fin, order) IN
        /\ Returns(r)
        /\ stream' = r.s
        /\ admitted' = Admit(r.s)
        /\ last' = Call("Reply", MkFrame("SynReply", stream.Id, fin, headers, 0), r.err)
        /\ UNCHANGED besideStream

WriteDataFrame ==
    \E fin \in BOOLEAN, order \in KeyOrders(NoHeaders) :
        LET r == StreamWriteDataFrame(stream, fin, order) IN
        /\ Returns(r)
        /\ stream' = r.s
        /\ admitted' = Admit(r.s)
        /\ last' = Call("WriteDataFrame", MkFrame("Data", stream.Id, fin, NoHeaders, 0), r.err)
        /\ UNCHANGED besideStream

Rst ==
    \E status \in {ProtocolError, StreamAlreadyClosed}, order \in KeyOrders(NoHeaders) :
        LET r == StreamRst(stream, status, order) IN
        /\ Returns(r)
        /\ stream' = r.s
        /\ admitted' = Admit(r.s)
        /\ last' = Call("Rst", MkFrame("RstStream", stream.Id, FALSE, NoHeaders, status), r.err)
        /\ UNCHANGED besideStream

ProtocolErrorCall ==
    \E order \in KeyOrders(NoHeaders) :
        LET r == StreamProtocolError(stream, order) IN
        /\ Returns(r)
        /\ stream' = r.s
        /\ admitted' = Admit(r.s)
        /\ last' = Call("ProtocolError",
                        MkFrame("RstStream", stream.Id, FALSE, NoHeaders, ProtocolError), r.err)
        /\ UNCHANGED besideStream

Close ==
    /\ stream' = StreamClose(stream)
    /\ last' = Call("Close", NoFrame, Nil)
    /\ UNCHANGED <<admitted, besideStream>>

\* stream.ReadFrame(): the handler takes a frame from the receive half.
ReadFrame ==
    LET r == ChanFramerReadFrame(stream.Input.ChanFramer) IN
    /\ r.err # Blocked
    /\ stream' = [stream EXCEPT !.Input.ChanFramer = r.framer]
    /\ last' = Call("ReadFrame", r.frame, r.err)
    /\ UNCHANGED <<admitted, besideStream>>

\* stream.Output.ReadFrame(): the session takes a frame from the send half.
OutputReadFrame ==
    LET r == ChanFramerReadFrame(stream.Output.ChanFramer) IN
    /\ r.err # Blocked
    /\ stream' = [stream EXCEPT !.Output.ChanFramer = r.framer]
    /\ last' = Call("Output.ReadFrame", r.frame, r.err)
    /\ UNCHANGED <<admitted, besideStream>>

Next ==
    \/ InputWriteFrame
    \/ WriteFrame
    \/ Syn
    \/ Reply
    \/ WriteDataFrame
    \/ Rst
    \/ ProtocolErrorCall
    \/ Close
    \/ ReadFrame
    \/ OutputReadFrame

Spec == Init /\ [][Next]_vars

\* ------------------------------------------------------- claims on the stream

OpeningTypes == {"SynStream", "SynReply"}

Other(side) == IF side = "Input" THEN "Output" ELSE "Input"

\* The calls that offer a frame to the send validator.
OutputCalls == {"WriteFrame", "Syn", "Reply", "WriteDataFrame", "Rst", "ProtocolError"}

\* The step is a call that offers last'.frame to the validator of `side`.
Offers(side) ==
    IF side = "Input" THEN last'.op = "Input.WriteFrame" ELSE last'.op \in OutputCalls

\* The step puts the offered frame into the channel of `side`.
Admits(side) ==
    /\ Offers(side)
    /\ stream'[side].ChanFramer.ch = Append(stream[side].ChanFramer.ch, last'.frame)

RstFrame(status) == MkFrame("RstStream", stream.Id, FALSE, NoHeaders, status)

\* The frame is illegal for the state of the open receive half.
IllegalOnInput(frame) ==
    \/ frame.type \in OpeningTypes /\ stream.Input.nFrames > 0
    \/ frame.type = "SynStream" /\ stream.local
    \/ frame.type = "SynReply" /\ ~stream.local
    \/ frame.type \in {"Headers", "Data"} /\ stream.Input.nFrames = 0
    \/ frame.type \in SessionTypes

\* The frame is one the send validator refuses in the state of the send half.
RefusedOnOutput(frame) ==
    \/ Closed(stream.Output.ChanFramer)
    \/ frame.type \in OpeningTypes /\ stream.Output.nFrames > 0
    \/ frame.type = "SynStream" /\ ~stream.local
    \/ frame.type = "SynReply" /\ stream.local
    \/ frame.type \in {"Headers", "Data"} /\ stream.Output.nFrames = 0
    \/ frame.type \notin {"SynStream", "SynReply", "Headers", "Data"}

\* C1: every time the receive validator rejects a non-Reset frame, exactly one
\* Reset frame is put on the send half: with status 9 when the receive half was
\* closed, with the protocol-error status when it was open and the frame was
\* illegal for its state.
C1_RejectionSendsOneReset ==
    [][ (/\ last'.op = "Input.WriteFrame"
         /\ last'.frame.type # "RstStream"
         /\ Closed(stream.Input.ChanFramer) \/ IllegalOnInput(last'.frame))
        => stream'.Output.ChanFramer.ch =
             Append(stream.Output.ChanFramer.ch,
                    RstFrame(IF Closed(stream.Input.ChanFramer)
                             THEN StreamAlreadyClosed ELSE ProtocolError)) ]_vars

\* C2: a Reset offered to the receive validator while the receive half is
\* closed returns no error and changes nothing of the stream: no frame is
\* queued on either half, and the counters, the accumulated headers and the
\* closed flags of both halves stay as they were.
C2_ResetOnClosedInputIsIgnored ==
    [][ (/\ last'.op = "Input.WriteFrame"
         /\ last'.frame.type = "RstStream"
         /\ Closed(stream.Input.ChanFramer))
        => (last'.err = Nil /\ stream' = stream /\ admitted' = admitted) ]_vars

\* A Reset was offered to the closed receive half while the send half was open
\* and held frames.
C2_Witness ==
    /\ last.op = "Input.WriteFrame"
    /\ last.frame.type = "RstStream"
    /\ Closed(stream.Input.ChanFramer)
    /\ ~Closed(stream.Output.ChanFramer)
    /\ stream.Output.ChanFramer.ch # <<>>

\* C3: whenever the receive validator admits a Reset (receive half open), both
\* halves are closed when the call returns, and the Reset has been queued on
\* the receive half and counted.
C3_AdmittedResetClosesBothHalves ==
    [][ (/\ last'.op = "Input.WriteFrame"
         /\ last'.frame.type = "RstStream"
         /\ ~Closed(stream.Input.ChanFramer))
        => (/\ last'.err = Nil
            /\ Closed(stream'.Input.ChanFramer) /\ stream'.Input.ChanFramer.closed
            /\ Closed(stream'.Output.ChanFramer) /\ stream'.Output.ChanFramer.closed
            /\ stream'.Input.ChanFramer.ch = Append(stream.Input.ChanFramer.ch, last'.frame)
            /\ stream'.Input.nFrames = stream.Input.nFrames + 1) ]_vars

\* A Reset without fin flag was admitted as the first frame of the receive half
\* while the send half held a frame, and both halves are closed.
C3_Witness ==
    /\ last.op = "Input.WriteFrame"
    /\ last.frame.type = "RstStream"
    /\ ~last.frame.fin
    /\ admitted.Input = <<last.frame>>
    /\ Len(admitted.Output) = 1
    /\ ~admitted.Output[1].fin
    /\ Closed(stream.Input.ChanFramer)
    /\ Closed(stream.Output.ChanFramer)

\* The order of kinds among the frames the receive half has admitted.
C4_AdmittedSequence ==
    LET a == admitted.Input IN
    /\ \A i \in 1..Len(a) : a[i].type \in OpeningTypes => i = 1
    /\ \A i \in 1..Len(a) :
          a[i].type \in {"Headers", "Data"} => (i > 1 /\ a[1].type \in OpeningTypes)

\* C4: the frames admitted to the receive half hold at most one opening frame,
\* it is the first admitted frame, and a Headers or Data frame is admitted only
\* after an opening frame; an opening frame offered when the counter is
\* greater than 0 is not queued and does not change the counter.
C4_OneOpeningFrame ==
    /\ []C4_AdmittedSequence
    /\ [][ (Admits("Input") /\ last'.frame.type \in OpeningTypes)
           => stream.Input.nFrames = 0 ]_vars
    /\ [][ (Admits("Input") /\ last'.frame.type \in {"Headers", "Data"})
           => stream.Input.nFrames > 0 ]_vars
    /\ [][ (/\ last'.op = "Input.WriteFrame"
            /\ last'.frame.type \in OpeningTypes
            /\ stream.Input.nFrames > 0)
           => (/\ stream'.Input = stream.Input
               /\ admitted'.Input = admitted.Input) ]_vars

\* An opening frame of the right kind was offered to the open receive half
\* after an opening frame and a Data frame had been admitted.
C4_Witness ==
    /\ last.op = "Input.WriteFrame"
    /\ last.frame.type = (IF stream.local THEN "SynReply" ELSE "SynStream")
    /\ Len(admitted.Input) = 2
    /\ admitted.Input[1].type \in OpeningTypes
    /\ admitted.Input[2].type = "Data"
    /\ ~Closed(stream.Input.ChanFramer)

\* Neither half has admitted the opening frame of the other direction.
C5_AdmittedKinds ==
    /\ \A i \in 1..Len(admitted.Input) :
          admitted.Input[i].type # (IF stream.local THEN "SynStream" ELSE "SynReply")
    /\ \A i \in 1..Len(admitted.Output) :
          admitted.Output[i].type # (IF stream.local THEN "SynReply" ELSE "SynStream")

\* C5: a stream with local = true never admits an incoming SynStream nor an
\* outgoing SynReply, a stream with local = false never admits an incoming
\* SynReply nor an outgoing SynStream, and `local` never changes.
C5_LocalDecidesOpeningFrame ==
    /\ []C5_AdmittedKinds
    /\ [][stream'.local = stream.local]_vars

\* A SynStream was offered as the first frame to the open receive half of a
\* local stream, whose send half has admitted its SynStream.
C5_Witness ==
    /\ stream.local
    /\ last.op = "Input.WriteFrame"
    /\ last.frame.type = "SynStream"
    /\ stream.Input.nFrames = 0
    /\ ~Closed(stream.Input.ChanFramer)
    /\ Len(admitted.Output) = 1
    /\ admitted.Output[1].type = "SynStream"

\* C6: admitting a non-Reset frame with the fin flag closes the half that
\* admitted it and leaves the other half (closed flag, counter, headers,
\* queued frames) as it was; admitting one without the fin flag leaves the
\* admitting half open.
C6_FinClosesOneHalf ==
    [][ \A side \in {"Input", "Output"} :
          (Admits(side) /\ last'.frame.type # "RstStream")
          => (/\ stream'[Other(side)] = stream[Other(side)]
              /\ Closed(stream'[side].ChanFramer) = last'.frame.fin
              /\ stream'[side].ChanFramer.closed = last'.frame.fin) ]_vars

\* A Syn with the fin flag closed the send half while the receive half, which
\* has admitted a frame, stays open.
C6_Witness ==
    /\ last.op = "Syn"
    /\ last.frame.fin
    /\ admitted.Output = <<last.frame>>
    /\ Closed(stream.Output.ChanFramer)
    /\ ~Closed(stream.Input.ChanFramer)
    /\ stream.Input.nFrames = 1
    /\ stream.Input.ChanFramer.ch # <<>>

\* C7: every frame the send validator refuses is reported as a non-nil error,
\* and the call changes nothing of the stream: not the queue, counter, headers
\* and closed flag of the send half, nor the receive half.
C7_RefusedSendIsLocalError ==
    [][ (Offers("Output") /\ RefusedOnOutput(last'.frame))
        => (/\ last'.err # Nil
            /\ stream' = stream
            /\ admitted' = admitted) ]_vars

\* A Data frame was offered as the first frame to the open send half, and
\* refused, while the receive half held a frame.
C7_Witness ==
    /\ last.op = "WriteDataFrame"
    /\ last.err = "First frame sent must be SYN_STREAM or SYN_REPLY"
    /\ ~Closed(stream.Output.ChanFramer)
    /\ stream.Output.nFrames = 0
    /\ stream.Input.ChanFramer.ch # <<>>

Sides == {"Input", "Output"}

\* The step is a call of stream.ReadFrame or stream.Output.ReadFrame on `side`.
Reads(side) ==
    IF side = "Input" THEN last'.op = "ReadFrame" ELSE last'.op = "Output.ReadFrame"

\* C16: Stream.Close() leaves both halves closed, puts no frame into either
\* channel and keeps both counters and both header maps; called on a stream it
\* has already closed it changes nothing; and a read of a closed half hands
\* out the frames still waiting, oldest first, and reports the end of the
\* stream only once the channel is empty.
C16_CloseKeepsQueuedFrames ==
    [][ /\ last'.op = "Close"
           => /\ \A side \in Sides :
                    /\ Closed(stream'[side].ChanFramer)
                    /\ stream'[side].ChanFramer.closed
                    /\ stream'[side].ChanFramer.ch = stream[side].ChanFramer.ch
                    /\ stream'[side].nFrames = stream[side].nFrames
                    /\ stream'[side].Headers = stream[side].Headers
              /\ admitted' = admitted
              /\ last'.err = Nil
              /\ (\A side \in Sides : stream[side].ChanFramer.closed) => stream' = stream
        /\ \A side \in Sides :
             (Reads(side) /\ stream[side].ChanFramer.closed)
                => IF stream[side].ChanFramer.ch # <<>>
                   THEN /\ last'.err = Nil
                        /\ last'.frame = Head(stream[side].ChanFramer.ch)
                        /\ stream'[side].ChanFramer.ch = Tail(stream[side].ChanFramer.ch)
                   ELSE /\ last'.err = EOF
                        /\ last'.frame = NoFrame ]_vars

\* Close() was called while two frames were waiting in the receive half.
C16_Witness ==
    /\ last.op = "Close"
    /\ Len(stream.Input.ChanFramer.ch) = 2
    /\ stream.Input.nFrames = 2
    /\ Closed(stream.Input.ChanFramer)
    /\ Closed(stream.Output.ChanFramer)

\* No RstStream frame has been put into the channel of the send half.
C17_NoResetQueued ==
    \A i \in 1..Len(admitted.Output) : admitted.Output[i].type # "RstStream"

\* C17: Stream.Rst(status) and Stream.ProtocolError() always return an error
\* and change nothing of the stream: no frame is put into either channel, no
\* counter moves and no half is closed; the send half never holds a RstStream
\* frame.
C17_RstAlwaysFails ==
    [][ /\ last'.op \in {"Rst", "ProtocolError"}
           => /\ last'.err # Nil
              /\ last'.frame.type = "RstStream"
              /\ stream' = stream
              /\ admitted' = admitted
        /\ C17_NoResetQueued' ]_vars

\* Rst was called on a stream whose send half is open and has sent its
\* opening frame, and was refused.
C17_Witness ==
    /\ last.op = "Rst"
    /\ last.err = "Won't send invalid frame type"
    /\ ~Closed(stream.Output.ChanFramer)
    /\ ~Closed(stream.Input.ChanFramer)
    /\ stream.Output.nFrames = 1

\* The counter of each half is the number of frames put into its channel.
C18_CounterIsAdmitted ==
    \A side \in Sides : stream[side].nFrames = Len(admitted[side])

\* C18: the counter of a half is the number of frames put into its channel;
\* it moves only when a call puts its frame into that channel, and then by
\* one; once the half is closed its counter and its channel's intake are
\* frozen.
C18_CounterCountsAdmissions ==
    [][ /\ C18_CounterIsAdmitted'
        /\ \A side \in Sides :
             /\ stream'[side].nFrames # stream[side].nFrames
                   => /\ Admits(side)
                      /\ last'.err = Nil
                      /\ stream'[side].nFrames = stream[side].nFrames + 1
             /\ Admits(side) => stream'[side].nFrames = stream[side].nFrames + 1
             /\ Closed(stream[side].ChanFramer)
                   => /\ stream'[side].nFrames = stream[side].nFrames
                      /\ admitted'[side] = admitted[side]
                      /\ Closed(stream'[side].ChanFramer) ]_vars

\* A frame with the fin flag was admitted as the second frame of the send
\* half: the half is closed with a counter of two.
C18_Witness ==
    /\ last.op \in OutputCalls
    /\ last.err = Nil
    /\ GetFinFlag(last.frame)
    /\ Closed(stream.Output.ChanFramer)
    /\ stream.Output.nFrames = 2
    /\ Len(admitted.Output) = 2

\* ------------------------------------------- ChanFramer, goroutine by goroutine

SendOnClosed == "panic: send on closed channel"
CloseOfClosed == "panic: close of closed channel"

\* The frames the goroutines write and the error they pass to Error.
ChanFrames == { MkFrame("Data", id, fin, NoHeaders, 0) : id \in StreamIds, fin \in BOOLEAN }
ChanErrors == {"E1"}

InitChan ==
    /\ stream = NewStream(1, FALSE)
    /\ last = Call("NewStream", NoFrame, Nil)
    /\ admitted = [Input |-> <<>>, Output |-> <<>>]
    /\ InitChanVars
    /\ InitRelayVars
    /\ InitPeerVars

NoCall == Call("none", NoFrame, Nil)

Running(p) == panicked = Nil /\ pc[p] = "idle"

At(p, label) == panicked = Nil /\ pc[p] = label

WritesStarted == Len(sent) + Cardinality({ q \in Procs : pc[q] = "Write_send" })

\* The result of putting `frame` into the channel `framer.ch <- frame`.
Enqueue(ch, frame) == Append(ch, frame)

\* The frame `<-framer.ch` takes, and the channel it leaves.
DequeueFrame(ch) == Head(ch)
DequeueRest(ch) == Tail(ch)

\* What ReadFrame returns once the channel is closed and empty.
ReadClosedResult(err) == Call("ReadFrame", NoFrame, err)

\* WriteFrame, line 412: the test of framer.err.
ChanWriteCheck(p) ==
    \E frame \in ChanFrames :
        /\ Running(p)
        /\ WritesStarted < MaxWrites
        /\ IF framer.err # Nil
           THEN /\ ret' = (Call("WriteFrame", frame, framer.err))
                /\ UNCHANGED <<pc, cur>>
           ELSE /\ pc' = [pc EXCEPT ![p] = "Write_send"]
                /\ cur' = [cur EXCEPT ![p] = Call("WriteFrame", frame, Nil)]
                /\ UNCHANGED ret
        /\ UNCHANGED <<framer, panicked, sent, delivered, recorded, late, closedAt>>
        /\ UNCHANGED besideChan

\* WriteFrame, line 415: the send. It panics on a closed channel, and waits
\* while the channel is full.
ChanWriteSend(p) ==
    /\ At(p, "Write_send")
    /\ IF framer.closed
       THEN /\ panicked' = SendOnClosed
            /\ pc' = [pc EXCEPT ![p] = "panic"]
            /\ UNCHANGED <<framer, ret, sent, late>>
       ELSE /\ Len(framer.ch) < QueueCap
            /\ framer' = [framer EXCEPT !.ch = Enqueue(@, cur[p].frame)]
            /\ sent' = Append(sent, cur[p].frame)
            /\ late' = (late \/ framer.err # Nil)
            /\ pc' = [pc EXCEPT ![p] = "idle"]
            /\ ret' = (Call("WriteFrame", cur[p].frame, Nil))
            /\ UNCHANGED panicked
    /\ cur' = [cur EXCEPT ![p] = NoCall]
    /\ UNCHANGED <<delivered, recorded, closedAt>>
    /\ UNCHANGED besideChan

\* Error(err), line 429: the test of framer.err. `op` is the method the
\* goroutine called: Error, or Close, which calls Error(io.EOF).
ErrorCheck(p, op, err) ==
    /\ Running(p)
    /\ IF framer.err # Nil
       THEN /\ ret' = (Call(op, NoFrame, err))
            /\ UNCHANGED <<pc, cur>>
       ELSE /\ pc' = [pc EXCEPT ![p] = "Error_set"]
            /\ cur' = [cur EXCEPT ![p] = Call(op, NoFrame, err)]
            /\ UNCHANGED ret
    /\ UNCHANGED <<framer, panicked, sent, delivered, recorded, late, closedAt>>
    /\ UNCHANGED besideChan

ChanErrorCheck(p) == \E err \in ChanErrors : ErrorCheck(p, "Error", err)

ChanCloseCheck(p) == ErrorCheck(p, "Close", EOF)

\* Error, line 432: framer.err = err.
ChanErrorSet(p) ==
    /\ At(p, "Error_set")
    /\ framer' = [framer EXCEPT !.err = cur[p].err]
    /\ recorded' = Append(recorded, cur[p].err)
    /\ pc' = [pc EXCEPT ![p] = "Error_close"]
    /\ UNCHANGED <<cur, ret, panicked, sent, delivered, late, closedAt>>
    /\ UNCHANGED besideChan

\* Error whose close throws away the frames still buffered in the channel.
ChanErrorClose_DropsBuffered(p) ==
    /\ At(p, "Error_close")
    /\ IF framer.closed
       THEN /\ panicked' = CloseOfClosed
            /\ pc' = [pc EXCEPT ![p] = "panic"]
            /\ UNCHANGED <<framer, ret, closedAt>>
       ELSE /\ framer' = [framer EXCEPT !.closed = TRUE, !.ch = <<>>]
            /\ closedAt' = Len(delivered)
            /\ pc' = [pc EXCEPT ![p] = "idle"]
            /\ ret' = (cur[p])
            /\ UNCHANGED panicked
    /\ cur' = [cur EXCEPT ![p] = NoCall]
    /\ UNCHANGED <<sent, delivered, recorded, late>>
    /\ UNCHANGED besideChan

\* Error, line 433: close(framer.ch). It panics on a closed channel.
ChanErrorClose(p) ==
    /\ At(p, "Error_close")
    /\ IF framer.closed
       THEN /\ panicked' = CloseOfClosed
            /\ pc' = [pc EXCEPT ![p] = "panic"]
            /\ UNCHANGED <<framer, ret, closedAt>>
       ELSE /\ framer' = [framer EXCEPT !.closed = TRUE]
            /\ closedAt' = Len(delivered)
            /\ pc' = [pc EXCEPT ![p] = "idle"]
            /\ ret' = (cur[p])
            /\ UNCHANGED panicked
    /\ cur' = [cur EXCEPT ![p] = NoCall]
    /\ UNCHANGED <<sent, delivered, recorded, late>>
    /\ UNCHANGED besideChan

\* ReadFrame, line 421: the receive. It takes the oldest frame; on a closed
\* and empty channel it yields !ok; on an open and empty one it waits.
ChanReadRecv(p) ==
    /\ Running(p)
    /\ IF framer.ch # <<>>
       THEN /\ framer' = [framer EXCEPT !.ch = DequeueRest(@)]
            /\ delivered' = Append(delivered, DequeueFrame(framer.ch))
            /\ ret' = (Call("ReadFrame", DequeueFrame(framer.ch), Nil))
            /\ UNCHANGED <<pc, cur>>
       ELSE /\ framer.closed
            /\ pc' = [pc EXCEPT ![p] = "Read_err"]
            /\ cur' = [cur EXCEPT ![p] = Call("ReadFrame", NoFrame, Nil)]
            /\ UNCHANGED <<framer, delivered, ret>>
    /\ UNCHANGED <<panicked, sent, recorded, late, closedAt>>
    /\ UNCHANGED besideChan

\* ReadFrame, line 423: return nil, framer.err.
ChanReadErr(p) ==
    /\ At(p, "Read_err")
    /\ ret' = (ReadClosedResult(framer.err))
    /\ pc' = [pc EXCEPT ![p] = "idle"]
    /\ cur' = [cur EXCEPT ![p] = NoCall]
    /\ UNCHANGED <<framer, panicked, sent, delivered, recorded, late, closedAt>>
    /\ UNCHANGED besideChan

NextChan ==
    \E p \in Procs :
        \/ ChanWriteCheck(p)
        \/ ChanWriteSend(p)
        \/ ChanErrorCheck(p)
        \/ ChanCloseCheck(p)
        \/ ChanErrorSet(p)
        \/ ChanErrorClose(p)
        \/ ChanReadRecv(p)
        \/ ChanReadErr(p)

SpecChan == InitChan /\ [][NextChan]_vars

\* ---------------------------------------------------- claims on the ChanFramer

Range(seq) == { seq[i] : i \in 1..Len(seq) }

ClosedAndDrained == framer.closed /\ framer.ch = <<>>

\* C8: a write that runs concurrently with Error or Close either puts its frame
\* into the channel before the terminal condition is recorded or returns the
\* recorded condition without queuing; it never fails in another way (a send
\* on the closed channel) and never queues a frame after the terminal
\* condition has been recorded.
C8_WriteQueuesOrReturnsError ==
    /\ panicked # SendOnClosed
    /\ ~late
    /\ (ret.op = "WriteFrame" /\ ret.err # Nil) => ret.err \in Range(recorded)

\* What has been read, followed by what is buffered, is what has been written.
C9_NothingLost == delivered \o framer.ch = sent

\* C9: the channel is strictly FIFO and loses nothing on close: what has been
\* read followed by what is buffered is what has been written, in the order
\* written, also after the close; a read returns no frame only once the
\* channel is closed and drained, then with the recorded terminal condition,
\* and from then on no read returns a frame.
C9_FifoAndNoLossOnClose ==
    /\ []C9_NothingLost
    /\ [][ \A p \in Procs :
             (pc[p] = "Read_err" /\ pc'[p] = "idle")
             => (/\ ret' = Call("ReadFrame", NoFrame, ret'.err)
                 /\ ret'.err \in Range(recorded)
                 /\ ClosedAndDrained
                 /\ delivered = sent) ]_vars
    /\ [][ ClosedAndDrained => (ClosedAndDrained' /\ delivered' = delivered) ]_vars

\* Two different frames were written, Close ran while one of them was still
\* buffered, both were read in the order written, and the read after them
\* returned end-of-stream.
C9_Witness ==
    /\ panicked = Nil
    /\ Len(sent) = 2
    /\ sent[1] # sent[2]
    /\ recorded = <<EOF>>
    /\ closedAt >= 0
    /\ closedAt < Len(delivered)
    /\ delivered = sent
    /\ ret = Call("ReadFrame", NoFrame, EOF)

\* framer.err has been assigned at most once, and no close hit a closed channel.
C10_Recorded ==
    /\ panicked # CloseOfClosed
    /\ Len(recorded) <= 1
    /\ framer.err = (IF recorded = <<>> THEN Nil ELSE recorded[1])

\* C10: Error and Close are one-shot and idempotent for any interleaving of
\* calls: the terminal condition is the one the first call passed, it is never
\* replaced, Closed() never goes back to false, and every later call completes
\* as a no-op without failing.
C10_ErrorIsOneShot ==
    /\ []C10_Recorded
    /\ [][ Closed(framer) => (Closed(framer') /\ framer'.err = framer.err) ]_vars

\* ------------------------------------------- the header maps of the two halves

\* The header maps of the frames offered in SpecHeaders: one spelling of the
\* key, the other, both in one map, and two values of one key.
HeaderMaps ==
    { [NoHeaders EXCEPT !["a"] = <<"1">>],
      [NoHeaders EXCEPT !["A"] = <<"2">>],
      [NoHeaders EXCEPT !["a"] = <<"1">>, !["A"] = <<"2">>],
      [NoHeaders EXCEPT !["a"] = <<"1", "2">>] }

HeaderFrames ==
    { MkFrame(t, id, FALSE, h, 0) : t \in HeaderTypes, id \in StreamIds, h \in HeaderMaps }
    \cup { MkFrame("Data", id, FALSE, NoHeaders, 0) : id \in StreamIds }
    \cup { MkFrame("RstStream", id, FALSE, NoHeaders, ProtocolError) : id \in StreamIds }

ReturnsHeaders(r) ==
    /\ r.err # Blocked
    /\ r.s.Input.nFrames + r.s.Output.nFrames <= MaxHeaderFrames

\* stream.Input.WriteFrame(frame) with a frame of HeaderFrames.
HeadersInputWriteFrame ==
    \E frame \in HeaderFrames : \E order \in KeyOrders(frame.Headers) :
        LET r == StreamInputWriteFrame(stream, frame, order) IN
        /\ ReturnsHeaders(r)
        /\ stream' = r.s
        /\ admitted' = Admit(r.s)
        /\ last' = Call("Input.WriteFrame", frame, r.err)
        /\ UNCHANGED besideStream

\* stream.WriteFrame(frame) with a frame of HeaderFrames.
HeadersWriteFrame ==
    \E frame \in HeaderFrames : \E order \in KeyOrders(frame.Headers) :
        LET r == StreamOutputWriteFrame(stream, frame, order) IN
        /\ ReturnsHeaders(r)
        /\ stream' = r.s
        /\ admitted' = Admit(r.s)
        /\ last' = Call("WriteFrame", frame, r.err)
        /\ UNCHANGED besideStream

NextHeaders ==
    \/ HeadersInputWriteFrame
    \/ HeadersWriteFrame

SpecHeaders == Init /\ [][NextHeaders]_vars

\* The orders in which the elements of a set can be visited.
Orders(S) ==
    { o \in [1..Cardinality(S) -> S] : \A i, j \in 1..Cardinality(S) : i # j => o[i] # o[j] }

\* The spellings that http.Header.Add stores under the key K.
Spellings(K) == { k \in HeaderKeys : CanonicalKey(k) = K }

RECURSIVE ValuesIn(_, _)
\* The values a header map holds for the keys of `order`, key after key.
ValuesIn(headers, order) ==
    IF order = <<>> THEN <<>>
    ELSE headers[Head(order)] \o ValuesIn(headers, Tail(order))

\* What one frame can add under the key K: the values of each spelling of K
\* in the order the frame carries them, spelling after spelling.
FrameValues(frame, K) ==
    IF ~HasHeaders(frame) THEN { <<>> }
    ELSE { ValuesIn(GetHeaders(frame), o) : o \in Orders(Spellings(K)) }

RECURSIVE Merges(_, _)
\* What a sequence of admitted frames can leave under the key K.
Merges(frames, K) ==
    IF frames = <<>> THEN { <<>> }
    ELSE { m \o v : m \in Merges(SubSeq(frames, 1, Len(frames) - 1), K),
                    v \in FrameValues(frames[Len(frames)], K) }

IsPrefix(s, t) == Len(s) <= Len(t) /\ s = SubSeq(t, 1, Len(s))

RECURSIVE Carried(_, _)
\* The values a sequence of frames carries for the key k, frame after frame.
Carried(frames, k) ==
    IF frames = <<>> THEN <<>>
    ELSE (IF HasHeaders(Head(frames)) THEN GetHeaders(Head(frames))[k] ELSE <<>>)
         \o Carried(Tail(frames), k)

InitMirror ==
    /\ \E id \in StreamIds, isLocal \in BOOLEAN :
          /\ stream = NewStream(id, isLocal)
          /\ peer = NewStream(id, ~isLocal)
    /\ peerAdmitted = <<>>
    /\ last = Call("NewStream", NoFrame, Nil)
    /\ admitted = [Input |-> <<>>, Output |-> <<>>]
    /\ InitChanVars
    /\ InitRelayVars

\* stream.WriteFrame(frame) on the sending side.
MirrorWriteFrame ==
    \E frame \in Frames : \E order \in KeyOrders(frame.Headers) :
        LET r == StreamOutputWriteFrame(stream, frame, order) IN
        /\ r.err # Blocked
        /\ r.s.Output.nFrames <= MaxMirrorFrames
        /\ stream' = r.s
        /\ admitted' = Admit(r.s)
        /\ last' = Call("WriteFrame", frame, r.err)
        /\ UNCHANGED besideStream

\* The two sessions: the frame at the head of the sender's send half goes
\* over the connection and is offered to the peer: peer.Input.WriteFrame(frame).
MirrorRelay ==
    LET out == ChanFramerReadFrame(stream.Output.ChanFramer) IN
    /\ out.err = Nil
    /\ \E order \in KeyOrders(out.frame.Headers) :
          LET r == StreamInputWriteFrame(peer, out.frame, order) IN
          /\ r.err # Blocked
          /\ peer' = r.s
          /\ peerAdmitted' =
                peerAdmitted \o Queued(peer.Input.ChanFramer.ch, r.s.Input.ChanFramer.ch)
          /\ last' = Call("Relay", out.frame, r.err)
    /\ stream' = [stream EXCEPT !.Output.ChanFramer = out.framer]
    /\ UNCHANGED <<admitted, chanVars, relayVars>>

\* peer.ReadFrame(): the peer's handler takes a frame from its receive half.
MirrorPeerReadFrame ==
    LET r == ChanFramerReadFrame(peer.Input.ChanFramer) IN
    /\ r.err = Nil
    /\ peer' = [peer EXCEPT !.Input.ChanFramer = r.framer]
    /\ last' = Call("Peer.ReadFrame", r.frame, r.err)
    /\ UNCHANGED <<stream, admitted, peerAdmitted, chanVars, relayVars>>

NextMirror ==
    \/ MirrorWriteFrame
    \/ Close
    \/ MirrorRelay
    \/ MirrorPeerReadFrame

SpecMirror == InitMirror /\ [][NextMirror]_vars

\* Some frame of the sequence has the fin flag.
HasFin(frames) == \E i \in 1..Len(frames) : GetFinFlag(frames[i])

\* C19: every frame the send validator of a stream has admitted is admitted by
\* the receive validator of a fresh peer stream of the opposite `local` when
\* the frames are offered in the order sent; once all of them have been
\* offered the peer's receive counter equals the sender's send counter, and
\* the peer's receive half is closed exactly when a frame with the fin flag
\* closed the sender's send half.
C19_ValidatorsMirror ==
    [][ /\ last'.op = "Relay"
           => /\ peer'.Input.ChanFramer.ch = Append(peer.Input.ChanFramer.ch, last'.frame)
              /\ peer'.Input.nFrames = peer.Input.nFrames + 1
              /\ peer'.Output = peer.Output
        /\ IsPrefix(peerAdmitted', admitted'.Output)
        /\ peer'.Input.nFrames = Len(peerAdmitted')
        /\ Closed(peer'.Input.ChanFramer) <=> HasFin(peerAdmitted')
        /\ stream'.Output.ChanFramer.ch = <<>>
           => /\ peerAdmitted' = admitted'.Output
              /\ peer'.Input.nFrames = stream'.Output.nFrames
              /\ Closed(peer'.Input.ChanFramer)
                    <=> (Closed(stream'.Output.ChanFramer) /\ HasFin(admitted'.Output)) ]_vars

\* The sender has sent three frames, the last with the fin flag, and the peer
\* has been offered all three.
C19_Witness ==
    /\ last.op = "Relay"
    /\ GetFinFlag(last.frame)
    /\ stream.Output.ChanFramer.ch = <<>>
    /\ stream.Output.nFrames = 3
    /\ peer.Input.nFrames = 3
    /\ Closed(stream.Output.ChanFramer)
    /\ Closed(peer.Input.ChanFramer)

\* --------------------------------------------------- Copy, Promise and Splice

\* The i-th frame an endpoint hands out: the frames of one source differ.
RelayFrame(i) == MkFrame("Data", i, FALSE, NoHeaders, 0)
Source(n) == [i \in 1..n |-> RelayFrame(i)]

\* The terminal condition of an endpoint: io.EOF or an error of its own.
EndErrors(e) == {EOF, "E" \o e}

SpliceTasks == {"Ab", "Ba"}

\* Either Splice(a, b, wait) is about to run, or Copy(w, a) is running with
\* w nil or b.
InitRelay ==
    /\ \E na, nb, la, lb \in 0..MaxSource :
       \E ea \in EndErrors("a"), eb \in EndErrors("b") :
          /\ ends = [e \in Ends |-> IF e = "a" THEN MkEnd(Source(na), ea, la)
                                              ELSE MkEnd(Source(nb), eb, lb)]
          /\ hist = [ended |-> <<>>, received |-> <<>>, endedAtReturn |-> <<>>,
                     src |-> [e \in Ends |-> IF e = "a" THEN Source(na) ELSE Source(nb)]]
    /\ \/ /\ \E wait \in BOOLEAN : splice = MkSplice("start", wait)
          /\ task = [t \in Tasks |-> IF t = "Ab" THEN MkTask("a", "b")
                                    ELSE IF t = "Ba" THEN MkTask("b", "a")
                                    ELSE MkTask("nil", "a")]
       \/ /\ splice = MkSplice("none", FALSE)
          /\ \E w \in {"nil", "b"} :
                task = [t \in Tasks |-> IF t = "Solo" THEN [MkTask(w, "a") EXCEPT !.pc = "read"]
                                        ELSE MkTask("nil", "a")]
    /\ stream = NewStream(1, FALSE)
    /\ last = Call("NewStream", NoFrame, Nil)
    /\ admitted = [Input |-> <<>>, Output |-> <<>>]
    /\ InitChanVars
    /\ InitPeerVars

\* Copy returns err. A Copy that Promise runs then offers its result on the
\* unbuffered channel (ch <- f()) and waits there for a receiver.
CopyReturn(t, err) ==
    [task EXCEPT ![t].err = err, ![t].pc = IF t \in SpliceTasks THEN "send" ELSE "done"]

Ended(t) == task[t].pc \in {"send", "done"}

\* Copy that returns nil at the test of a nil writer, where the source goes
\* on to the next frame.
CopyRead_NilWriterReturns(t) ==
    LET r == task[t].r IN
    /\ task[t].pc = "read"
    /\ IF ends[r].src # <<>>
       THEN /\ ends' = [ends EXCEPT ![r].src = Tail(@)]
            /\ IF task[t].w = "nil"
               THEN /\ task' = [CopyReturn(t, Nil) EXCEPT
                                   ![t].read = Append(@, Head(ends[r].src))]
                    /\ hist' = [hist EXCEPT !.ended = Append(@, t)]
               ELSE /\ task' = [task EXCEPT ![t].frame = Head(ends[r].src),
                                            ![t].read = Append(@, Head(ends[r].src)),
                                            ![t].pc = "write"]
                    /\ hist' = hist
       ELSE /\ task' = CopyReturn(t, IF ends[r].end = EOF THEN Nil ELSE ends[r].end)
            /\ hist' = [hist EXCEPT !.ended = Append(@, t)]
            /\ ends' = ends
    /\ UNCHANGED <<splice, streamVars, chanVars, peerVars>>

\* Copy, lines 99-108: r.ReadFrame(), the two tests of err, the test of w.
CopyRead(t) ==
    LET r == task[t].r IN
    /\ task[t].pc = "read"
    /\ IF ends[r].src # <<>>
       THEN /\ ends' = [ends EXCEPT ![r].src = Tail(@)]
            /\ task' = [task EXCEPT ![t].frame = Head(ends[r].src),
                                    ![t].read = Append(@, Head(ends[r].src)),
                                    ![t].pc = IF task[t].w = "nil" THEN "read" ELSE "write"]
            /\ hist' = hist
       ELSE /\ task' = CopyReturn(t, IF ends[r].end = EOF THEN Nil ELSE ends[r].end)
            /\ hist' = [hist EXCEPT !.ended = Append(@, t)]
            /\ ends' = ends
    /\ UNCHANGED <<splice, streamVars, chanVars, peerVars>>

\* Copy that does not look at what w.WriteFrame returned.
CopyWrite_IgnoresError(t) ==
    LET w == task[t].w IN
    /\ task[t].pc = "write"
    /\ task' = [task EXCEPT ![t].passed = Append(@, task[t].frame), ![t].pc = "read"]
    /\ ends' = IF Len(ends[w].sink) < ends[w].wlimit
               THEN [ends EXCEPT ![w].sink = Append(@, task[t].frame)]
               ELSE ends
    /\ hist' = hist
    /\ UNCHANGED <<splice, streamVars, chanVars, peerVars>>

\* Copy, lines 109-112: w.WriteFrame(frame) and the test of err.
CopyWrite(t) ==
    LET w == task[t].w IN
    /\ task[t].pc = "write"
    /\ IF Len(ends[w].sink) < ends[w].wlimit
       THEN /\ ends' = [ends EXCEPT ![w].sink = Append(@, task[t].frame)]
            /\ task' = [task EXCEPT ![t].passed = Append(@, task[t].frame), ![t].pc = "read"]
            /\ hist' = hist
       ELSE /\ task' = [CopyReturn(t, ends[w].end) EXCEPT
                           ![t].passed = Append(@, task[t].frame)]
            /\ hist' = [hist EXCEPT !.ended = Append(@, t)]
            /\ ends' = ends
    /\ UNCHANGED <<splice, streamVars, chanVars, peerVars>>

\* Splice, line 125: Promise(Ab), then Promise(Ba); each starts a goroutine.
SplicePromise(t) ==
    /\ t \in SpliceTasks
    /\ splice.pc = (IF t = "Ab" THEN "start" ELSE "promiseBa")
    /\ task' = [task EXCEPT ![t].pc = "read"]
    /\ splice' = [splice EXCEPT !.pc = IF t = "Ab" THEN "promiseBa"
                                       ELSE IF splice.wait THEN "recvAb" ELSE "select"]
    /\ UNCHANGED <<ends, hist, streamVars, chanVars, peerVars>>

\* Splice, lines 128-132: errAb, errBa := <-promiseAb, <-promiseBa, one
\* receive after the other, and the return that follows the second.
SpliceWait(t) ==
    /\ t \in SpliceTasks
    /\ splice.pc = (IF t = "Ab" THEN "recvAb" ELSE "recvBa")
    /\ task[t].pc = "send"
    /\ task' = [task EXCEPT ![t].pc = "done"]
    /\ splice' = IF t = "Ab"
                 THEN [splice EXCEPT !.errAb = task[t].err, !.pc = "recvBa"]
                 ELSE [splice EXCEPT !.errBa = task[t].err, !.pc = "returned",
                                     !.ret = IF splice.errAb # Nil THEN splice.errAb
                                             ELSE task[t].err]
    /\ hist' = [hist EXCEPT !.received = Append(@, t),
                            !.endedAtReturn = IF t = "Ba" THEN hist.ended ELSE @]
    /\ UNCHANGED <<ends, streamVars, chanVars, peerVars>>

\* The select that returns what it received as it is.
SpliceSelect_NoTranslation(t) ==
    /\ t \in SpliceTasks
    /\ splice.pc = "select"
    /\ task[t].pc = "send"
    /\ task' = [task EXCEPT ![t].pc = "done"]
    /\ splice' = [splice EXCEPT !.pc = "returned", !.ret = task[t].err]
    /\ hist' = [hist EXCEPT !.received = Append(@, t), !.endedAtReturn = hist.ended]
    /\ UNCHANGED <<ends, streamVars, chanVars, peerVars>>

\* Splice, lines 134-139: the select receives from a promise whose goroutine
\* is waiting to send, any of them when both are, and returns.
SpliceSelect(t) ==
    /\ t \in SpliceTasks
    /\ splice.pc = "select"
    /\ task[t].pc = "send"
    /\ task' = [task EXCEPT ![t].pc = "done"]
    /\ splice' = [splice EXCEPT !.pc = "returned",
                                !.ret = IF task[t].err = EOF THEN Nil ELSE task[t].err]
    /\ hist' = [hist EXCEPT !.received = Append(@, t), !.endedAtReturn = hist.ended]
    /\ UNCHANGED <<ends, streamVars, chanVars, peerVars>>

NextRelay ==
    \E t \in Tasks :
        \/ SplicePromise(t)
        \/ CopyRead(t)
        \/ CopyWrite(t)
        \/ SpliceWait(t)
        \/ SpliceSelect(t)

SpecRelay == InitRelay /\ [][NextRelay]_vars

\* --------------------------------------------------------- claims on the relay

\* The Copy that Splice starts to relay what it reads from one endpoint into
\* the other.
RelayFrom(from, to) == CHOOSE t \in SpliceTasks : task[t].r = from /\ task[t].w = to

\* Splice(a, b, true) has returned.
ReturnedWaiting == splice.wait /\ splice.pc = "returned"

\* Splice(a, b, false) has returned.
ReturnedAtOnce == ~splice.wait /\ splice.pc = "returned"

\* C11: Splice with wait=true returns only after both copies have ended, and
\* returns the error of the copy that relays frames from a to b when that is
\* not nil, the result of the copy from b to a otherwise.
C11_WaitPrefersAToB ==
    ReturnedWaiting
        => /\ \A t \in SpliceTasks : Ended(t)
           /\ splice.ret = IF task[RelayFrom("a", "b")].err # Nil
                           THEN task[RelayFrom("a", "b")].err
                           ELSE task[RelayFrom("b", "a")].err

\* C12 as stated: Splice with wait=false returns the result of the copy that
\* ended first, with io.EOF turned into nil.
C12_FirstEndedDecides ==
    ReturnedAtOnce
        => splice.ret = IF task[hist.ended[1]].err = EOF THEN Nil
                        ELSE task[hist.ended[1]].err

\* C12, amended: Splice with wait=false returns on the one result it
\* receives, which is that of a copy that has ended: of the first to end when
\* the other had not ended by then, of either when both had. It returns nil
\* when that result is nil or io.EOF and the error otherwise, and nothing the
\* other copy does later changes what has been returned.
C12_ReceivedResultDecides ==
    [][ /\ ReturnedAtOnce'
           => /\ Len(hist'.received) = 1
              /\ \E i \in 1..Len(hist'.endedAtReturn) :
                    hist'.endedAtReturn[i] = hist'.received[1]
              /\ Len(hist'.endedAtReturn) = 1 => hist'.received[1] = hist'.ended[1]
              /\ splice'.ret = IF task'[hist'.received[1]].err = EOF THEN Nil
                               ELSE task'[hist'.received[1]].err
        /\ ReturnedAtOnce
           => /\ splice' = splice
              /\ hist'.received = hist.received
              /\ hist'.endedAtReturn = hist.endedAtReturn
              /\ task'[hist.received[1]] = task[hist.received[1]] ]_vars

\* Splice with wait=false has returned nil for a copy that ended with io.EOF
\* from its writer, while the other copy has not ended.
C12_Witness ==
    /\ ReturnedAtOnce
    /\ splice.ret = Nil
    /\ task[hist.received[1]].err = EOF
    /\ \E t \in SpliceTasks : task[t].pc \in {"read", "write"}

\* The copy's write of its current frame has failed.
WriteFailed(t) == Len(task[t].passed) > ends[task[t].w].wlimit

\* C13: with a writer, the frames Copy has passed to w.WriteFrame are a
\* prefix of the frames it has read, which are a prefix of what the reader
\* had, and at most the last frame read has not been passed. Copy returns
\* nil when the reader reports io.EOF, the reader's error when it reports
\* another one, and the writer's error at the first write that fails; once it
\* has returned it reads nothing and writes nothing.
C13_CopyForwardsInOrder ==
    [][ \A t \in Tasks :
          task'[t].w # "nil" =>
            LET k == task'[t]
                r == ends'[task'[t].r]
                w == ends'[task'[t].w]
            IN /\ IsPrefix(k.passed, k.read)
               /\ IsPrefix(k.read, hist'.src[k.r])
               /\ IsPrefix(w.sink, k.passed)
               /\ Len(k.read) - Len(k.passed) <= 1
               /\ k.pc \in {"send", "done"}
                     => IF Len(k.passed) > w.wlimit
                        THEN /\ k.err = w.end
                             /\ k.passed = k.read
                             /\ Len(k.passed) = w.wlimit + 1
                             /\ w.sink = SubSeq(k.passed, 1, w.wlimit)
                        ELSE /\ k.err = (IF r.end = EOF THEN Nil ELSE r.end)
                             /\ k.read = hist'.src[k.r]
                             /\ k.passed = k.read
                             /\ w.sink = k.passed
               /\ Ended(t)
                     => /\ k.read = task[t].read
                        /\ k.passed = task[t].passed
                        /\ k.err = task[t].err
                        /\ r.src = ends[task[t].r].src
                        /\ w.sink = ends[task[t].w].sink ]_vars

\* Copy(b, a), called directly, has returned the writer's error at its first
\* write and left the reader's second frame unread.
C13_Witness ==
    /\ task["Solo"].pc = "done"
    /\ task["Solo"].w = "b"
    /\ WriteFailed("Solo")
    /\ task["Solo"].err = "Eb"
    /\ Len(task["Solo"].passed) = 1
    /\ ends["b"].sink = <<>>
    /\ Len(task["Solo"].read) = 1
    /\ Len(ends["a"].src) = 1

\* C14: with a nil writer Copy writes nothing; when the reader hands out its
\* frames and then io.EOF, Copy has read every one of them when it returns,
\* and returns nil.
C14_NilWriterDiscards ==
    \A t \in Tasks :
        (task[t].w = "nil" /\ task[t].pc # "idle")
            => /\ task[t].passed = <<>>
               /\ \A e \in Ends : ends[e].sink = <<>>
               /\ IsPrefix(task[t].read, hist.src[task[t].r])
               /\ (Ended(t) /\ ends[task[t].r].end = EOF)
                     => /\ task[t].err = Nil
                        /\ task[t].read = hist.src[task[t].r]
                        /\ ends[task[t].r].src = <<>>

\* Copy(nil, a) has returned after reading the two frames and the io.EOF of a.
C14_Witness ==
    /\ task["Solo"].pc = "done"
    /\ task["Solo"].w = "nil"
    /\ ends["a"].end = EOF
    /\ Len(task["Solo"].read) = 2
    /\ task["Solo"].err = Nil

\* C20: once Splice has returned and both copies have ended, no goroutine
\* started by Promise is still waiting to send its result, and each promise
\* has handed out its result exactly once.
C20_NoGoroutineLeftSending ==
    (splice.pc = "returned" /\ \A t \in SpliceTasks : Ended(t))
        => \A t \in SpliceTasks :
              /\ task[t].pc = "done"
              /\ Cardinality({ i \in 1..Len(hist.received) : hist.received[i] = t }) = 1

====
